---- MODULE Spec2Model ----
(***************************************************************************)
(* A model of the Manager of the file manager: src/core/manager/manager.rs *)
(* and yazi-core/src/manager/commands/link.rs.  The Manager owns the tabs, *)
(* the clipboard (yanked) and the mimetype cache, and receives the         *)
(* asynchronous events update_read, update_ioerr, update_search,           *)
(* update_mimetype and update_preview.                                      *)
(*                                                                         *)
(* Folder, Tab, Tabs and Preview are used by the Manager but their code is *)
(* not among the sources: they are modelled from the design document       *)
(* (sections 3, 4.2 and 4.3).                                              *)
(***************************************************************************)
EXTENDS Integers, Sequences, FiniteSets, TLC

VARIABLES
    tabs,       \* Manager.tabs: the sequence of Tab (Tabs.items)
    idx,        \* Manager.tabs: the active index (Tabs.idx), 0-based
    yanked,     \* Manager.yanked: (cut, set of paths)
    mimetype,   \* Manager.mimetype: path -> mimetype string
    prompts,    \* the tasks spawned by quit that wait for the prompt's answer
    out,        \* what the last operation returned, emitted and dispatched
    shadow,     \* a second tab that is fed the same listings in another order
    steps       \* the number of operations run so far

vars == <<tabs, idx, yanked, mimetype, prompts, out, shadow, steps>>

----------------------------------------------------------------------------
(* Bounds of the model *)

\* the number of distinct entry names in a directory
MaxNames == 3
\* the longest directory listing an event delivers
MaxLen == 2
\* the most tabs that are open at once
MaxTabs == 2
\* the largest number of running tasks reported by Tasks::len
MaxJobs == 2
\* the most quit prompts waiting for an answer at once
MaxPending == 2
\* the longest run of operations explored by the step-bounded specifications
MaxSteps == 3

\* the entries of the start directory the mimetype prober answers for
MaxProbed == 2

----------------------------------------------------------------------------
(* Option<T>: None is the empty sequence, Some(x) the one-element sequence *)

None == <<>>

Some(x) == <<x>>

IsSome(o) == o /= <<>>

Unwrap(o) == o[1]

Min(a, b) == IF a < b THEN a ELSE b

\* the elements of a sequence
Range(s) == {s[i] : i \in 1..Len(s)}

\* HashMap/BTreeMap: functions with a finite domain
EmptyMap == [p \in {} |-> None]

MapPut(m, k, v) == [x \in (DOMAIN m) \cup {k} |-> IF x = k THEN v ELSE m[x]]

\* HashMap::extend: the entries of add overwrite those of m
MapExtend(m, add) ==
    [x \in (DOMAIN m) \cup (DOMAIN add) |-> IF x \in DOMAIN add THEN add[x] ELSE m[x]]

\* HashMap::get
MapGet(m, k) == IF k \in DOMAIN m THEN Some(m[k]) ELSE None

----------------------------------------------------------------------------
(* Paths: a path is the sequence of its components, <<>> is the root *)

Names == 1..MaxNames

Root == <<>>

\* Path::parent
PathParent(p) == IF p = Root THEN None ELSE Some(SubSeq(p, 1, Len(p) - 1))

Children(p) == {p \o <<n>> : n \in Names}

\* the metadata of an entry: the directories on the first level are
\* directories, below them the entry named 1 is a directory and the others
\* are plain files
IsDir(p) == Len(p) <= 1 \/ p[Len(p)] = 1

\* File: identity is the path, meta.is_dir() the only metadata modelled
File(p) == [path |-> p, is_dir |-> IsDir(p)]

\* the directories of the model: a tab starts in Home, whose parent is Up
\* and whose grandparent is the root
Up == <<1>>

Home == <<1, 1>>

\* the directories events are delivered for
OpPaths == {Root, Up, Home}

\* sequences of distinct elements of S, of length at most n
RECURSIVE DistinctSeqs(_, _)
DistinctSeqs(S, n) ==
    IF n = 0 THEN {<<>>}
    ELSE LET shorter == DistinctSeqs(S, n - 1)
         IN shorter \cup
            {Append(u[1], u[2]) :
                u \in {v \in shorter \X S : Len(v[1]) = n - 1 /\ v[2] \notin Range(v[1])}}

\* the paths of a listing
FilePaths(files) == {files[i].path : i \in 1..Len(files)}

\* the listings of directory p with at most n entries
Listings(p, n) ==
    {[i \in 1..Len(s) |-> File(s[i])] : s \in DistinctSeqs(Children(p), n)}

\* FilesOp::Read(path, items), FilesOp::Search(path, items), FilesOp::IOErr(path)
FilesOp(kind, path, items) == [kind |-> kind, path |-> path, items |-> items]

\* FilesOp::read_empty
read_empty(path) == FilesOp("Read", path, <<>>)

\* the events with a listing of at most one entry, for every directory
ReadOps == UNION {{FilesOp("Read", p, l) : l \in Listings(p, 1)} : p \in OpPaths}

SearchOps == UNION {{FilesOp("Search", p, l) : l \in Listings(p, 1)} : p \in OpPaths}

IOErrOps == {FilesOp("IOErr", p, <<>>) : p \in OpPaths}

\* the mimetypes the prober reports
Mimes == {"text/plain", "image/png"}

\* the results of the prober: a mimetype for some of the entries of Home
MimeMaps ==
    UNION {[D -> Mimes] : D \in SUBSET {Home \o <<n>> : n \in 1..Min(MaxProbed, MaxNames)}}

\* the results of the prober for at most one entry
SmallMimeMaps == {m \in MimeMaps : Cardinality(DOMAIN m) <= 1}

\* the preview artifacts a renderer produces
PreviewDatas == {"Folder", "Blob"}

\* the numbers of running tasks
JobCounts == 0..MaxJobs

\* the reads of the start directory, with every listing up to MaxLen entries
HomeReadOps == {FilesOp("Read", Home, l) : l \in Listings(Home, MaxLen)}

\* the listings whose entries are in ascending order of their names
Ascending(files) ==
    \A i \in 1..(Len(files) - 1) :
        files[i].path[Len(files[i].path)] < files[i + 1].path[Len(files[i + 1].path)]

\* the reads of the start directory that deliver a sorted listing
SortedReadOps == {op \in HomeReadOps : Ascending(op.items)}

\* the reads that deliver the entries of op in the same or in another order
Reorderings(op) ==
    {FilesOp(op.kind, op.path, [i \in 1..Len(op.items) |-> op.items[f[i]]]) :
        f \in Permutations(1..Len(op.items))}

----------------------------------------------------------------------------
(* Folder: one directory's listing, cursor and selection *)

Folder_new(cwd) ==
    [cwd |-> cwd, files |-> <<>>, cursor |-> 0, hovered |-> None,
     selected |-> {}, in_search |-> FALSE]

Folder_new_search(cwd) ==
    [cwd |-> cwd, files |-> <<>>, cursor |-> 0, hovered |-> None,
     selected |-> {}, in_search |-> TRUE]

\* the 0-based position of path in the listing
Position(files, path) ==
    IF path \in FilePaths(files)
    THEN Some((CHOOSE i \in 1..Len(files) : files[i].path = path) - 1)
    ELSE None

\* Option<File> -> Option<PathBuf>: hovered.map(|h| h.path())
HoveredPath(hovered) == IF IsSome(hovered) THEN Some(Unwrap(hovered).path) ELSE None

\* a search result is merged into the listing: the entries already listed
\* keep their place, the new ones are appended
RECURSIVE MergeFiles(_, _)
MergeFiles(files, items) ==
    IF items = <<>> THEN files
    ELSE IF Head(items).path \in FilePaths(files)
         THEN MergeFiles(files, Tail(items))
         ELSE MergeFiles(Append(files, Head(items)), Tail(items))

\* Folder::update, the new listing: a directory read replaces the listing,
\* a search result is merged into it
NewFiles(f, op) ==
    IF op.kind = "Search" THEN MergeFiles(f.files, op.items) ELSE op.items

\* the position of the hovered path in the new listing, if it is still there
KeptPosition(f, files) ==
    IF IsSome(f.hovered) THEN Position(files, Unwrap(f.hovered).path) ELSE None

\* the fallback: the same index if there is an entry, else the last entry
FallbackCursor(f, files) ==
    IF Len(files) = 0 THEN 0 ELSE Min(f.cursor, Len(files) - 1)

PickCursor(pos, fallback) == IF IsSome(pos) THEN Unwrap(pos) ELSE fallback

\* the Folder with the listing files and the cursor on index cursor
Folder_place(f, files, cursor) ==
    [f EXCEPT !.files = files,
              !.cursor = cursor,
              !.hovered = IF Len(files) = 0 THEN None ELSE Some(files[cursor + 1]),
              !.selected = @ \cap FilePaths(files)]

\* the cursor re-validation that follows every listing mutation: the hovered
\* path is kept if it is still listed, else the entry at the same index is
\* hovered, else the last entry, else none
Folder_revalidate(f, files) ==
    Folder_place(f, files, PickCursor(KeptPosition(f, files), FallbackCursor(f, files)))

\* Folder::update
Folder_update(f, op) == Folder_revalidate(f, NewFiles(f, op))

\* the Folder with the cursor on position pos, if there is one
Folder_hover_at(f, pos) ==
    IF IsSome(pos)
    THEN [f EXCEPT !.cursor = Unwrap(pos), !.hovered = Some(f.files[Unwrap(pos) + 1])]
    ELSE f

\* Folder::hover: moves the cursor to path if it is listed
Folder_hover(f, path) == Folder_hover_at(f, Position(f.files, path))

\* the paths of a sequence of entries
PathsOf(files) == [i \in 1..Len(files) |-> files[i].path]

\* Folder::selected: the selected paths in listing order, None if there
\* are none
Folder_selected(f) ==
    IF f.selected = {} THEN None
    ELSE Some(PathsOf(SelectSeq(f.files, LAMBDA x : x.path \in f.selected)))

\* the selection with path p toggled
Toggle(sel, p) == IF p \in sel THEN sel \ {p} ELSE sel \cup {p}

\* Folder::select: the selection command, toggles the hovered entry
Folder_select(f) ==
    IF ~IsSome(f.hovered) THEN f
    ELSE [f EXCEPT !.selected = Toggle(@, Unwrap(f.hovered).path)]

\* the index step away from cursor, kept within a listing of n entries
Clamp(c, n) == IF c < 0 THEN 0 ELSE Min(c, n - 1)

\* the Folder with the cursor on index c of a listing that is not empty
Folder_cursor(f, c) == [f EXCEPT !.cursor = c, !.hovered = Some(f.files[c + 1])]

\* Folder::arrow: the cursor command, moves the cursor by step and stays
\* within the listing
Folder_arrow(f, step) ==
    IF Len(f.files) = 0 THEN f
    ELSE Folder_cursor(f, Clamp(f.cursor + step, Len(f.files)))

----------------------------------------------------------------------------
(* Preview: the preview slot of a tab *)

Preview_new == [path |-> None, data |-> "None"]

\* Preview::reset: clears the slot
Preview_reset(pv) == Preview_new

----------------------------------------------------------------------------
(* Tab *)

\* the Folder of the parent of cwd, if cwd has a parent
ParentFolder(up) == IF IsSome(up) THEN Some(Folder_new(Unwrap(up))) ELSE None

Tab_new(cwd) ==
    [current |-> Folder_new(cwd),
     parent  |-> ParentFolder(PathParent(cwd)),
     history |-> EmptyMap,
     preview |-> Preview_new]

\* Tab::history
Tab_history(tab, path) == MapGet(tab.history, path)

\* the Folder the tab shows for directory path: the archived one if there is
\* one, else a new one
Tab_folder(tab, path) ==
    IF path \in DOMAIN tab.history THEN tab.history[path] ELSE Folder_new(path)

\* the parent Folder of a tab that has moved to the Folder cur
Tab_parent_of(tab, up) ==
    IF IsSome(up) THEN Some(Tab_folder(tab, Unwrap(up))) ELSE None

\* Tab::leave: the tab moves up to the parent directory and the stale current
\* Folder is discarded, if the parent is known
Tab_leave(tab) ==
    IF ~IsSome(tab.parent) THEN tab
    ELSE [tab EXCEPT !.current = Unwrap(tab.parent),
                     !.parent  = Tab_parent_of(tab, PathParent(Unwrap(tab.parent).cwd))]

----------------------------------------------------------------------------
(* Tabs: the tab collection *)

\* Vec::remove: the sequence without its element at 0-based index i
Remove(items, i) ==
    [k \in 1..(Len(items) - 1) |-> IF k <= i THEN items[k] ELSE items[k + 1]]

\* Tabs::close: removes the tab at index i and clamps the active index, and
\* refuses to drop below one tab
Tabs_close(items, active_idx, i) ==
    IF Len(items) < 2 \/ i >= Len(items)
    THEN [items |-> items, idx |-> active_idx, b |-> FALSE]
    ELSE [items |-> Remove(items, i), idx |-> Min(active_idx, Len(items) - 2), b |-> TRUE]

\* Tabs::create: opens a new tab at path after the others and makes it active
Tabs_create(items, path) ==
    [items |-> Append(items, Tab_new(path)), idx |-> Len(items)]

----------------------------------------------------------------------------
(* Strings: a string is the sequence of its characters *)

\* char::to_lowercase for the letters a prompt answer is made of
CharLower(c) ==
    CASE c = "Y" -> "y"
      [] c = "N" -> "n"
      [] c = "E" -> "e"
      [] c = "S" -> "s"
      [] OTHER   -> c

\* str::to_lowercase
to_lowercase(str) == [i \in 1..Len(str) |-> CharLower(str[i])]

\* what the input prompt can resolve to: Ok(text) or Err (cancelled)
Ok(v) == [ok |-> TRUE, value |-> v]

Err == [ok |-> FALSE, value |-> <<>>]

Answers ==
    {Err} \cup {Ok(a) : a \in {<<>>, <<"y">>, <<"Y">>, <<"n">>, <<"N">>,
                               <<"y", "e", "s">>, <<"Y", "y">>}}

----------------------------------------------------------------------------
(* What an operation hands back: its return value, the signals it emits on *)
(* the notification bus (emit!), and what it dispatches to collaborators   *)

Hover == [sig |-> "Hover", path |-> None, data |-> "None"]

Quit == [sig |-> "Quit", path |-> None, data |-> "None"]

PreviewSig(path, data) == [sig |-> "Preview", path |-> Some(path), data |-> data]

OutNew(op) ==
    [op      |-> op,     \* the operation that ran last
     event   |-> <<>>,   \* the arguments an update_* handler was called with
     ret     |-> FALSE,  \* its return value
     emits   |-> <<>>,   \* the signals it emitted, in order
     prompts |-> 0,      \* the input prompts it issued
     hints   |-> <<>>,   \* precache_image / precache_video calls
     probes  |-> <<>>,   \* external::file calls, each with its paths
     go      |-> <<>>,   \* Preview::go calls
     previews |-> 0,     \* the calls of Manager::preview it made
     links   |-> <<>>,   \* Tasks::file_link calls
     found   |-> <<>>,   \* the mimetypes handed back by Manager::mimetypes
     triggers |-> <<>>,  \* Watcher::trigger calls
     watch   |-> <<>>]   \* Watcher::watch calls, each with its set of paths

----------------------------------------------------------------------------
(* Manager: accessors *)

\* Manager::active
active == tabs[idx + 1]

\* Manager::current
current == active.current

\* Manager::parent
parent == active.parent

\* Manager::hovered
hovered == active.current.hovered

\* Manager::active_mut: the tabs with the active one replaced
WithActive(tab) == [tabs EXCEPT ![idx + 1] = tab]

----------------------------------------------------------------------------
(* Manager::update_read, as a function of the active tab *)

\* a tab together with the re-render flag b computed so far
Flagged(tab, b) == [tab |-> tab, b |-> b]

\* lines 186-187 with the current Folder made anew for the listing
read_current_fresh(tab, op) ==
    Flagged([tab EXCEPT !.current = Folder_update(Folder_new(tab.current.cwd), op)], TRUE)

\* lines 186-187: the listing goes to the current Folder
read_current(tab, op) ==
    Flagged([tab EXCEPT !.current = Folder_update(@, op)], TRUE)

\* lines 188-189: the listing goes to the parent Folder
read_parent(tab, op) ==
    Flagged([tab EXCEPT !.parent = Some(Folder_update(Unwrap(@), op))], TRUE)

\* lines 190-198: the listing goes to the history Folder of the path, made
\* on demand
read_history(tab, op) ==
    Flagged([tab EXCEPT !.history =
                 MapPut(@, op.path, Folder_update(Tab_folder(tab, op.path), op))],
            IsSome(tab.current.hovered) /\ Unwrap(tab.current.hovered).path = op.path)

\* lines 186-199 without the test for a search listing of line 186
read_apply_any(tab, op) ==
    IF tab.current.cwd = op.path
    THEN read_current(tab, op)
    ELSE IF IsSome(tab.parent) /\ Unwrap(tab.parent).cwd = op.path
    THEN read_parent(tab, op)
    ELSE read_history(tab, op)

\* lines 186-199: the Folder the listing is applied to
read_apply(tab, op) ==
    IF tab.current.cwd = op.path /\ ~tab.current.in_search
    THEN read_current(tab, op)
    ELSE IF IsSome(tab.parent) /\ Unwrap(tab.parent).cwd = op.path
    THEN read_parent(tab, op)
    ELSE read_history(tab, op)

with_parent(r, p) ==
    Flagged([r.tab EXCEPT !.parent = Some(p)],
            r.b \/ p.cursor /= Unwrap(r.tab.parent).cursor)

\* line 201: the parent's cursor is put on the current directory
hover_parent(r, cwd) ==
    IF IsSome(r.tab.parent)
    THEN with_parent(r, Folder_hover(Unwrap(r.tab.parent), cwd))
    ELSE r

with_current(r, c) ==
    Flagged([r.tab EXCEPT !.current = c], r.b \/ c.cursor /= r.tab.current.cursor)

\* line 202 putting back the entry hovered before without looking it up in
\* the listing
hover_current_blind(r, hov) ==
    IF IsSome(hov)
    THEN Flagged([r.tab EXCEPT !.current.hovered = Some(File(Unwrap(hov)))], r.b)
    ELSE r

\* line 202: the current cursor is put back on the path hovered before
hover_current(r, hov) ==
    IF IsSome(hov)
    THEN with_current(r, Folder_hover(r.tab.current, Unwrap(hov)))
    ELSE r

\* lines 204-207 emitting Hover whenever an entry is hovered after the read
read_emit_hovering(r, hov) ==
    [tab   |-> r.tab,
     b     |-> r.b,
     emits |-> IF IsSome(r.tab.current.hovered) THEN <<Hover>> ELSE <<>>]

\* lines 204-207 emitting Hover after every read
read_emit_always(r, hov) == [tab |-> r.tab, b |-> r.b, emits |-> <<Hover>>]

\* lines 204-207: Hover is emitted if the hovered path has changed
read_emit(r, hov) ==
    [tab   |-> r.tab,
     b     |-> r.b,
     emits |-> IF hov /= HoveredPath(r.tab.current.hovered) THEN <<Hover>> ELSE <<>>]

\* Manager::update_read
update_read_tab(tab, op) ==
    read_emit(hover_current(hover_parent(read_apply(tab, op), tab.current.cwd),
                            HoveredPath(tab.current.hovered)),
              HoveredPath(tab.current.hovered))

----------------------------------------------------------------------------
(* Manager::update_ioerr and Manager::update_search *)

\* update_ioerr with the history branch of update_read in place of the
\* return of line 219
update_ioerr_tab_history(tab, op) ==
    IF op.path = tab.current.cwd
    THEN Flagged(Tab_leave([tab EXCEPT !.current = Folder_update(@, read_empty(op.path))]),
                 TRUE)
    ELSE IF IsSome(tab.parent) /\ Unwrap(tab.parent).cwd = op.path
    THEN Flagged(Tab_leave([tab EXCEPT !.parent =
                                Some(Folder_update(Unwrap(@), read_empty(op.path)))]),
                 TRUE)
    ELSE Flagged([tab EXCEPT !.history =
                      MapPut(@, op.path,
                             Folder_update(Tab_folder(tab, op.path), read_empty(op.path)))],
                 TRUE)

\* Manager::update_ioerr
update_ioerr_tab(tab, op) ==
    IF op.path = tab.current.cwd
    THEN Flagged(Tab_leave([tab EXCEPT !.current = Folder_update(@, read_empty(op.path))]),
                 TRUE)
    ELSE IF IsSome(tab.parent) /\ Unwrap(tab.parent).cwd = op.path
    THEN Flagged(Tab_leave([tab EXCEPT !.parent =
                                Some(Folder_update(Unwrap(@), read_empty(op.path)))]),
                 TRUE)
    ELSE Flagged(tab, FALSE)

\* lines 232-235 without the test of line 233
search_replace_always(tab, path) ==
    [tab EXCEPT !.current = Folder_new_search(path),
                !.history = MapPut(@, path, tab.current)]

\* lines 232-235: the current Folder is replaced by a new search Folder, and
\* archived under the path of the search if it is not a search Folder itself
search_replace(tab, path) ==
    [tab EXCEPT !.current = Folder_new_search(path),
                !.history = IF ~tab.current.in_search
                            THEN MapPut(@, path, tab.current) ELSE @]

\* line 236
search_fill(tab, op) == [tab EXCEPT !.current = Folder_update(@, op)]

\* Manager::update_search
update_search_tab(tab, op) ==
    IF tab.current.in_search /\ tab.current.cwd = op.path
    THEN Flagged([tab EXCEPT !.current = Folder_update(@, op)], TRUE)
    ELSE Flagged(search_fill(search_replace(tab, op.path), op), TRUE)

----------------------------------------------------------------------------
(* Manager::preview, update_mimetype and update_preview *)

\* what preview hands back: the tab, its return value, the signals emitted,
\* the probes spawned and the Preview::go calls
Previewed(tab, b, emits, probes, go) ==
    [tab |-> tab, b |-> b, emits |-> emits, probes |-> probes, go |-> go]

\* lines 56-60: the hovered entry is a directory
preview_dir(tab, h) ==
    Previewed(tab, FALSE,
              IF IsSome(Tab_history(tab, h.path))
              THEN <<PreviewSig(h.path, "Folder")>> ELSE <<>>,
              <<>>,
              <<[path |-> h.path, mime |-> "inode/directory"]>>)

\* lines 61-69 asking the prober also when the mimetype is cached
preview_file_reprobing(tab, h, mime) ==
    IF IsSome(mime)
    THEN Previewed(tab, FALSE, <<>>, <<<<h.path>>>>,
                   <<[path |-> h.path, mime |-> Unwrap(mime)]>>)
    ELSE Previewed(tab, FALSE, <<>>, <<<<h.path>>>>, <<>>)

\* lines 61-69: the hovered entry is a file
preview_file(tab, h, mime) ==
    IF IsSome(mime)
    THEN Previewed(tab, FALSE, <<>>, <<>>, <<[path |-> h.path, mime |-> Unwrap(mime)]>>)
    ELSE Previewed(tab, FALSE, <<>>, <<<<h.path>>>>, <<>>)

\* Manager::preview
preview_tab(tab, cache) ==
    IF ~IsSome(tab.current.hovered)
    THEN Previewed([tab EXCEPT !.preview = Preview_reset(@)],
                   tab.preview /= Preview_new, <<>>, <<>>, <<>>)
    ELSE IF Unwrap(tab.current.hovered).is_dir
    THEN preview_dir(tab, Unwrap(tab.current.hovered))
    ELSE preview_file(tab, Unwrap(tab.current.hovered),
                      MapGet(cache, Unwrap(tab.current.hovered).path))

\* the retain of line 241 keeping only the paths that are not cached yet
ChangedMimes_new_only(cache, mimes) ==
    [f \in {g \in DOMAIN mimes : g \notin DOMAIN cache} |-> mimes[f]]

\* Manager::update_mimetype, the retain of line 241: the entries of mimes
\* whose value is not the cached one
ChangedMimes(cache, mimes) ==
    [f \in {g \in DOMAIN mimes : MapGet(cache, g) /= Some(mimes[g])} |-> mimes[f]]

\* lines 246-251: the hints, the merge and the preview
mimetype_merged(cache, changed, pv) ==
    [tab |-> pv.tab, cache |-> cache, b |-> TRUE,
     hints |-> <<[kind |-> "image", mimes |-> changed],
                 [kind |-> "video", mimes |-> changed]>>,
     emits |-> pv.emits, probes |-> pv.probes, go |-> pv.go, previews |-> 1]

mimetype_changed(tab, cache, changed) ==
    IF DOMAIN changed = {}
    THEN [tab |-> tab, cache |-> cache, b |-> FALSE, hints |-> <<>>,
          emits |-> <<>>, probes |-> <<>>, go |-> <<>>, previews |-> 0]
    ELSE mimetype_merged(MapExtend(cache, changed), changed,
                         preview_tab(tab, MapExtend(cache, changed)))

\* Manager::update_mimetype
update_mimetype_op(tab, cache, mimes) ==
    mimetype_changed(tab, cache, ChangedMimes(cache, mimes))

\* update_preview without the path guard of lines 261-263: whatever arrives
\* is put into the slot
update_preview_tab_unguarded(tab, path, data) ==
    IF ~IsSome(tab.current.hovered)
    THEN Flagged([tab EXCEPT !.preview = Preview_reset(@)], tab.preview /= Preview_new)
    ELSE Flagged([tab EXCEPT !.preview = [path |-> Some(path), data |-> data]], TRUE)

\* Manager::update_preview
update_preview_tab(tab, path, data) ==
    IF ~IsSome(tab.current.hovered)
    THEN Flagged([tab EXCEPT !.preview = Preview_reset(@)], tab.preview /= Preview_new)
    ELSE IF Unwrap(tab.current.hovered).path /= path
    THEN Flagged(tab, FALSE)
    ELSE Flagged([tab EXCEPT !.preview = [path |-> Some(path), data |-> data]], TRUE)

----------------------------------------------------------------------------
(* Manager::selected, yank, quit, close and link *)

\* Option::or_else(..).unwrap_or_default() of line 167
OrHovered(sel, hov) ==
    IF IsSome(sel) THEN Unwrap(sel)
    ELSE IF IsSome(hov) THEN <<Unwrap(hov).path>>
    ELSE <<>>

\* Manager::selected
selected_tab(tab) == OrHovered(Folder_selected(tab.current), tab.current.hovered)

\* yank without the clear of line 75
yank_op_keep(y, cut, sel) == [cut |-> cut, set |-> (y.set \cup Range(sel))]

\* Manager::yank: the clipboard after yank(cut) with sel the result of
\* selected(): the flag is set, the set cleared and then extended
yank_op(y, cut, sel) == [cut |-> cut, set |-> ((y.set \ y.set) \cup Range(sel))]

\* Manager::quit: with no task running Quit is emitted, otherwise a task is
\* spawned that prompts the user
quit_op(tasks) ==
    IF tasks = 0
    THEN [b |-> FALSE, emits |-> <<Quit>>, spawn |-> <<>>]
    ELSE [b |-> FALSE, emits |-> <<>>, spawn |-> <<[tasks |-> tasks]>>]

\* the spawned task without the to_lowercase of line 99
quit_task_exact(result) ==
    IF result.ok /\ result.value = <<"y">> THEN <<Quit>> ELSE <<>>

\* Manager::quit, the spawned task once the prompt has resolved to result
quit_task(result) ==
    IF result.ok /\ to_lowercase(result.value) = <<"y">> THEN <<Quit>> ELSE <<>>

\* line 109: the active tab is closed
close_tab(c) ==
    [items |-> c.items, idx |-> c.idx, b |-> c.b, emits |-> <<>>, spawn |-> <<>>]

\* line 111: close falls through to quit
close_quit(items, active_idx, q) ==
    [items |-> items, idx |-> active_idx, b |-> q.b, emits |-> q.emits, spawn |-> q.spawn]

\* close with the comparison of line 108 off by one
close_op_always(items, active_idx, tasks) ==
    IF Len(items) >= 1
    THEN close_tab(Tabs_close(items, active_idx, active_idx))
    ELSE close_quit(items, active_idx, quit_op(tasks))

\* Manager::close
close_op(items, active_idx, tasks) ==
    IF Len(items) > 1
    THEN close_tab(Tabs_close(items, active_idx, active_idx))
    ELSE close_quit(items, active_idx, quit_op(tasks))

\* link without the test of the cut flag of line 20
link_op_moving(y, cwd, relative, force, file_link) ==
    [b |-> file_link,
     links |-> <<[src |-> y.set, dest |-> cwd, relative |-> relative, force |-> force]>>]

\* Manager::link: file_link is the answer of Tasks::file_link, asked only
\* if the clipboard is not in cut mode
link_op(y, cwd, relative, force, file_link) ==
    IF y.cut
    THEN [b |-> FALSE, links |-> <<>>]
    ELSE [b |-> file_link,
          links |-> <<[src |-> y.set, dest |-> cwd, relative |-> relative, force |-> force]>>]

----------------------------------------------------------------------------
(* Manager::mimetypes and Manager::refresh *)

\* the paths the prober resolves at all
ProbedPaths == {Home \o <<n>> : n \in 1..Min(MaxProbed, MaxNames)}

\* the lists of paths mimetypes is asked for, with at most n paths
PathLists(n) == UNION {[1..k -> Children(Home)] : k \in 0..n}

\* what external::file hands back for the paths todo: an error, or a
\* mimetype for those of the paths it resolved
ProbeResults(todo) ==
    {Err} \cup {Ok(m) : m \in UNION {[D -> Mimes] :
                                        D \in SUBSET (Range(todo) \cap ProbedPaths)}}

\* lines 171-172 handing every path to the prober
mimetypes_todo_all(cache, files) == files

\* lines 171-172: the paths that are not cached, in the order given
mimetypes_todo(cache, files) == SelectSeq(files, LAMBDA p : p \notin DOMAIN cache)

\* lines 174-176: the result of the prober is merged into the cache
mimetypes_merge(cache, result) ==
    IF result.ok THEN MapExtend(cache, result.value) ELSE cache

\* line 178: the cached mimetype of each path, in the order given
mimetypes_found(cache, files) == [i \in 1..Len(files) |-> MapGet(cache, files[i])]

\* Manager::mimetypes
mimetypes_op(cache, files, result) ==
    [cache  |-> mimetypes_merge(cache, result),
     probes |-> <<mimetypes_todo(cache, files)>>,
     found  |-> mimetypes_found(mimetypes_merge(cache, result), files)]

\* lines 35-45: the directories of one tab that are to be watched
tab_to_watch(tab) ==
    {tab.current.cwd}
        \cup {f.cwd : f \in Range(tab.parent)}
        \cup {h.path : h \in {g \in Range(tab.current.hovered) : g.is_dir}}

\* lines 34-46: the directories that are to be watched
to_watch(items) == UNION {tab_to_watch(items[t]) : t \in 1..Len(items)}

\* lines 28-31: the directories that are checked at once
refresh_triggers(tab) ==
    <<tab.current.cwd>> \o (IF IsSome(tab.parent) THEN <<Unwrap(tab.parent).cwd>> ELSE <<>>)

----------------------------------------------------------------------------
(* Manager: the operations as actions *)

update_read_do(r, event) ==
    /\ tabs' = WithActive(r.tab)
    /\ out' = [OutNew("update_read") EXCEPT !.event = event, !.ret = r.b, !.emits = r.emits]

update_read(op) ==
    /\ update_read_do(update_read_tab(active, op), <<op>>)
    /\ UNCHANGED <<idx, yanked, mimetype, prompts>>

update_ioerr_do(r, event) ==
    /\ tabs' = WithActive(r.tab)
    /\ out' = [OutNew("update_ioerr") EXCEPT !.event = event, !.ret = r.b]

update_ioerr(op) ==
    /\ update_ioerr_do(update_ioerr_tab(active, op), <<op>>)
    /\ UNCHANGED <<idx, yanked, mimetype, prompts>>

update_search_do(r, event) ==
    /\ tabs' = WithActive(r.tab)
    /\ out' = [OutNew("update_search") EXCEPT !.event = event, !.ret = r.b]

update_search(op) ==
    /\ update_search_do(update_search_tab(active, op), <<op>>)
    /\ UNCHANGED <<idx, yanked, mimetype, prompts>>

preview_do(r) ==
    /\ tabs' = WithActive(r.tab)
    /\ out' = [OutNew("preview") EXCEPT !.ret = r.b, !.emits = r.emits,
                                        !.probes = r.probes, !.go = r.go,
                                        !.previews = 1]

\* preview dropping the cached mimetype of every path but the hovered one
preview_forgetting ==
    /\ preview_do(preview_tab(active, mimetype))
    /\ mimetype' = [f \in (DOMAIN mimetype) \cap {h.path : h \in Range(hovered)} |->
                        mimetype[f]]
    /\ UNCHANGED <<idx, yanked, prompts>>

preview ==
    /\ preview_do(preview_tab(active, mimetype))
    /\ UNCHANGED <<idx, yanked, mimetype, prompts>>

update_mimetype_do(r, event) ==
    /\ tabs' = WithActive(r.tab)
    /\ mimetype' = r.cache
    /\ out' = [OutNew("update_mimetype") EXCEPT !.event = event,
                  !.ret = r.b, !.emits = r.emits, !.hints = r.hints,
                  !.probes = r.probes, !.go = r.go, !.previews = r.previews]

update_mimetype(mimes) ==
    /\ update_mimetype_do(update_mimetype_op(active, mimetype, mimes), <<mimes>>)
    /\ UNCHANGED <<idx, yanked, prompts>>

update_preview_do(r, event) ==
    /\ tabs' = WithActive(r.tab)
    /\ out' = [OutNew("update_preview") EXCEPT !.event = event, !.ret = r.b]

update_preview(path, data) ==
    /\ update_preview_do(update_preview_tab(active, path, data), <<path, data>>)
    /\ UNCHANGED <<idx, yanked, mimetype, prompts>>

yank(cut) ==
    /\ yanked' = yank_op(yanked, cut, selected_tab(active))
    /\ out' = OutNew("yank")
    /\ UNCHANGED <<tabs, idx, mimetype, prompts>>

selected ==
    /\ out' = OutNew("selected")
    /\ UNCHANGED <<tabs, idx, yanked, mimetype, prompts>>

quit_do(r) ==
    /\ Len(prompts) + Len(r.spawn) <= MaxPending
    /\ prompts' = prompts \o r.spawn
    /\ out' = [OutNew("quit") EXCEPT !.ret = r.b, !.emits = r.emits,
                                     !.prompts = Len(r.spawn)]

quit(tasks) ==
    /\ quit_do(quit_op(tasks))
    /\ UNCHANGED <<tabs, idx, yanked, mimetype>>

\* the prompt of the i-th waiting quit task resolves to result
quit_answer(i, result) ==
    /\ i \in 1..Len(prompts)
    /\ prompts' = Remove(prompts, i - 1)
    /\ out' = [OutNew("quit_answer") EXCEPT !.emits = quit_task(result)]
    /\ UNCHANGED <<tabs, idx, yanked, mimetype>>

close_do(r) ==
    /\ Len(prompts) + Len(r.spawn) <= MaxPending
    /\ tabs' = r.items
    /\ idx' = r.idx
    /\ prompts' = prompts \o r.spawn
    /\ out' = [OutNew("close") EXCEPT !.ret = r.b, !.emits = r.emits,
                                      !.prompts = Len(r.spawn)]

close(tasks) ==
    /\ close_do(close_op(tabs, idx, tasks))
    /\ UNCHANGED <<yanked, mimetype>>

link_do(r) == out' = [OutNew("link") EXCEPT !.ret = r.b, !.links = r.links]

\* link that takes the paths out of the clipboard once they are handed over
link_consuming(relative, force, file_link) ==
    /\ link_do(link_op(yanked, current.cwd, relative, force, file_link))
    /\ yanked' = [yanked EXCEPT !.set = {}]
    /\ UNCHANGED <<tabs, idx, mimetype, prompts>>

link(relative, force, file_link) ==
    /\ link_do(link_op(yanked, current.cwd, relative, force, file_link))
    /\ UNCHANGED <<tabs, idx, yanked, mimetype, prompts>>

mimetypes_do(r, event) ==
    /\ mimetype' = r.cache
    /\ out' = [OutNew("mimetypes") EXCEPT !.event = event, !.probes = r.probes,
                                          !.found = r.found]

\* Manager::mimetypes, with result what the prober hands back: it resolves
\* none but the paths it was given
mimetypes(files, result) ==
    /\ result.ok => DOMAIN result.value \subseteq Range(mimetypes_todo(mimetype, files))
    /\ mimetypes_do(mimetypes_op(mimetype, files, result), <<files, result>>)
    /\ UNCHANGED <<tabs, idx, yanked, prompts>>

\* Manager::refresh
refresh ==
    /\ out' = [OutNew("refresh") EXCEPT !.emits = <<Hover>>,
                                        !.triggers = refresh_triggers(active),
                                        !.watch = <<to_watch(tabs)>>]
    /\ UNCHANGED <<tabs, idx, yanked, mimetype, prompts>>

\* the selection command on the current Folder
select ==
    /\ tabs' = WithActive([active EXCEPT !.current = Folder_select(@)])
    /\ out' = OutNew("select")
    /\ UNCHANGED <<idx, yanked, mimetype, prompts>>

\* the cursor command on the current Folder
arrow(step) ==
    /\ tabs' = WithActive([active EXCEPT !.current = Folder_arrow(@, step)])
    /\ out' = OutNew("arrow")
    /\ UNCHANGED <<idx, yanked, mimetype, prompts>>

tab_create_do(r) == tabs' = r.items /\ idx' = r.idx

\* a new tab is opened
tab_create(path) ==
    /\ Len(tabs) < MaxTabs
    /\ tab_create_do(Tabs_create(tabs, path))
    /\ out' = OutNew("tab_create")
    /\ UNCHANGED <<yanked, mimetype, prompts>>

\* the active tab is switched
tab_switch(i) ==
    /\ i \in 0..(Len(tabs) - 1)
    /\ idx' = i
    /\ out' = OutNew("tab_switch")
    /\ UNCHANGED <<tabs, yanked, mimetype, prompts>>

----------------------------------------------------------------------------
(* Manager::new: one tab, an empty clipboard and an empty cache *)

Init ==
    /\ tabs = <<Tab_new(Home)>>
    /\ idx = 0
    /\ yanked = [cut |-> FALSE, set |-> {}]
    /\ mimetype = EmptyMap
    /\ prompts = <<>>
    /\ out = OutNew("new")
    /\ shadow = Tab_new(Home)
    /\ steps = 0

\* one more operation of a step-bounded run
Step == steps < MaxSteps /\ steps' = steps + 1 /\ UNCHANGED shadow

\* a run that is not step-bounded
NoStep == UNCHANGED <<steps, shadow>>

(* The filesystem events: directory reads, I/O errors and search results,  *)
(* for every directory and in any order                                    *)

NextFs ==
    \/ \E op \in ReadOps :
          Step /\ update_read(op)
    \/ \E op \in IOErrOps :
          Step /\ update_ioerr(op)
    \/ \E op \in SearchOps :
          Step /\ update_search(op)

SpecFs == Init /\ [][NextFs]_vars

(* The directory reads alone, with every listing of the start directory *)

NextRead ==
    \/ \E op \in HomeReadOps :
          NoStep /\ update_read(op)
    \/ \E op \in {o \in ReadOps : o.path /= Home} :
          NoStep /\ update_read(op)

SpecRead == Init /\ [][NextRead]_vars

(* Previews and mimetypes: the hovered entry changes with the reads of the *)
(* start directory, previews are requested, and the results of the prober  *)
(* and of the renderers arrive in any order                                *)

NextMime ==
    \/ \E op \in {o \in ReadOps : o.path = Home} :
          NoStep /\ update_read(op)
    \/ NoStep /\ preview
    \/ \E mimes \in MimeMaps :
          NoStep /\ update_mimetype(mimes)
    \/ \E path \in Children(Home), data \in PreviewDatas :
          NoStep /\ update_preview(path, data)

SpecMime == Init /\ [][NextMime]_vars

(* Tabs and quitting: tabs are opened, switched and closed, and the quit   *)
(* prompt is answered                                                      *)

NextQuit ==
    \/ \E tasks \in JobCounts :
          NoStep /\ quit(tasks)
    \/ \E tasks \in JobCounts :
          NoStep /\ close(tasks)
    \/ \E i \in 1..MaxPending, result \in Answers :
          NoStep /\ quit_answer(i, result)
    \/ \E path \in {Up, Home} :
          NoStep /\ tab_create(path)
    \/ \E i \in 0..(MaxTabs - 1) :
          NoStep /\ tab_switch(i)

SpecQuit == Init /\ [][NextQuit]_vars

(* Every operation of the Manager, in any order, for MaxSteps steps *)

Next ==
    \/ \E op \in {o \in ReadOps : o.path = Home} :
          Step /\ update_read(op)
    \/ \E op \in IOErrOps :
          Step /\ update_ioerr(op)
    \/ \E op \in {o \in SearchOps : o.path = Home} :
          Step /\ update_search(op)
    \/ Step /\ preview
    \/ \E mimes \in SmallMimeMaps :
          Step /\ update_mimetype(mimes)
    \/ \E path \in Children(Home) :
          Step /\ update_preview(path, "Blob")
    \/ \E cut \in BOOLEAN :
          Step /\ yank(cut)
    \/ Step /\ selected
    \/ Step /\ select
    \/ \E step \in {-1, 1} :
          Step /\ arrow(step)
    \/ \E relative \in BOOLEAN, force \in BOOLEAN, file_link \in BOOLEAN :
          Step /\ link(relative, force, file_link)
    \/ \E tasks \in JobCounts :
          Step /\ quit(tasks)
    \/ \E tasks \in JobCounts :
          Step /\ close(tasks)
    \/ \E i \in 1..MaxPending, result \in Answers :
          Step /\ quit_answer(i, result)
    \/ Step /\ tab_create(Up)
    \/ \E files \in PathLists(1) :
          \E result \in ProbeResults(mimetypes_todo(mimetype, files)) :
              Step /\ mimetypes(files, result)
    \/ Step /\ refresh

Spec == Init /\ [][Next]_vars

(* The mimetype cache: results of the prober arrive through update_mimetype *)
(* and mimetypes is asked for lists of paths                               *)

NextProbe ==
    \/ \E mimes \in MimeMaps :
          NoStep /\ update_mimetype(mimes)
    \/ \E files \in PathLists(MaxLen) :
          \E result \in ProbeResults(mimetypes_todo(mimetype, files)) :
              NoStep /\ mimetypes(files, result)

SpecProbe == Init /\ [][NextProbe]_vars

(* The clipboard: the start directory is read, entries are hovered and     *)
(* selected, and the selection is yanked and linked                        *)

NextClip ==
    \/ \E op \in SortedReadOps :
          NoStep /\ update_read(op)
    \/ NoStep /\ select
    \/ \E step \in {-1, 1} :
          NoStep /\ arrow(step)
    \/ \E cut \in BOOLEAN :
          NoStep /\ yank(cut)
    \/ NoStep /\ selected
    \/ \E relative \in BOOLEAN, file_link \in BOOLEAN :
          NoStep /\ link(relative, ~relative, file_link)

SpecClip == Init /\ [][NextClip]_vars

(* Two runs of the directory reads: the tab and its shadow are delivered   *)
(* the same entries by every read, in the same or in another order         *)

read_both(op, permuted) ==
    /\ update_read(op)
    /\ shadow' = update_read_tab(shadow, permuted).tab
    /\ UNCHANGED steps

NextPerm ==
    \E op \in HomeReadOps : \E permuted \in Reorderings(op) : read_both(op, permuted)

SpecPerm == Init /\ [][NextPerm]_vars

----------------------------------------------------------------------------
(* The claims *)

\* the state of the Manager: everything but what the last operation handed
\* back
manager == <<tabs, idx, yanked, mimetype, prompts>>

\* the step is a call of the handler name with the arguments event
Called(name, event) == out'.op = name /\ out'.event = event

\* C1 as stated: update_preview(path, data) returns false and leaves the
\* Manager unchanged whenever path is not the path of the hovered entry,
\* also when nothing is hovered.
C1_NoOpUnlessHovered ==
    [][\A path \in Children(Home), data \in PreviewDatas :
          (/\ Called("update_preview", <<path, data>>)
           /\ update_preview(path, data)
           /\ HoveredPath(hovered) /= Some(path))
              => (~out'.ret /\ UNCHANGED manager)]_vars

\* C1 amended: update_preview(path, data) returns false and leaves the
\* Manager unchanged whenever an entry is hovered and path is not its path;
\* when nothing is hovered it resets the preview slot of the active tab and
\* changes nothing else.
C1_NoOpOnOtherPath ==
    [][\A path \in Children(Home), data \in PreviewDatas :
          (Called("update_preview", <<path, data>>) /\ update_preview(path, data)) =>
              /\ (IsSome(hovered) /\ Unwrap(hovered).path /= path)
                     => (~out'.ret /\ UNCHANGED manager)
              /\ ~IsSome(hovered)
                     => /\ tabs' = WithActive([active EXCEPT !.preview = Preview_new])
                        /\ UNCHANGED <<idx, yanked, mimetype, prompts>>]_vars

\* C1 witness: an artifact for another path was discarded while an entry was
\* hovered and the slot held the preview of that entry.
C1_Witness ==
    /\ out.op = "update_preview"
    /\ ~out.ret
    /\ IsSome(hovered)
    /\ active.preview.path = HoveredPath(hovered)

\* C2: quit emits Quit at once and prompts nobody when no task runs; with
\* tasks running it emits nothing, spawns exactly one prompt, and the prompt's
\* answer emits Quit only if it is "y" or "Y"; any other answer and a
\* cancelled prompt emit nothing.
C2_QuitOnlyConfirmed ==
    [][/\ \A tasks \in JobCounts :
             quit(tasks) =>
                 IF tasks = 0
                 THEN out'.emits = <<Quit>> /\ out'.prompts = 0 /\ prompts' = prompts
                 ELSE out'.emits = <<>> /\ out'.prompts = 1 /\ Len(prompts') = Len(prompts) + 1
       /\ \A i \in 1..MaxPending, result \in Answers :
             quit_answer(i, result) =>
                 /\ Len(prompts') = Len(prompts) - 1
                 /\ out'.prompts = 0
                 /\ out'.emits = IF result \in {Ok(<<"y">>), Ok(<<"Y">>)}
                                 THEN <<Quit>> ELSE <<>>]_vars

\* C2 witness: a prompt spawned by quit with tasks running was answered and
\* Quit was emitted, with no prompt left waiting.
C2_Witness ==
    /\ out.op = "quit_answer"
    /\ out.emits = <<Quit>>
    /\ prompts = <<>>

\* the paths of mimes whose mimetype is not the cached one
Differing(cache, mimes) ==
    {f \in DOMAIN mimes : f \notin DOMAIN cache \/ cache[f] /= mimes[f]}

\* C3: update_mimetype writes to the cache and passes to the pre-cache hints
\* exactly the entries whose value differs from the cached one; with none it
\* returns false, leaves cache and tab alone, gives no hint and runs no
\* preview; otherwise it returns true and runs preview once.
C3_OnlyChangedMimes ==
    [][\A mimes \in MimeMaps :
          (Called("update_mimetype", <<mimes>>) /\ update_mimetype(mimes)) =>
              /\ mimetype' = [f \in (DOMAIN mimetype) \cup Differing(mimetype, mimes) |->
                                 IF f \in Differing(mimetype, mimes)
                                 THEN mimes[f] ELSE mimetype[f]]
              /\ IF Differing(mimetype, mimes) = {}
                 THEN /\ ~out'.ret
                      /\ out'.hints = <<>>
                      /\ out'.previews = 0
                      /\ out'.probes = <<>> /\ out'.go = <<>>
                      /\ UNCHANGED manager
                 ELSE /\ out'.ret
                      /\ out'.previews = 1
                      /\ Len(out'.hints) = 2
                      /\ {out'.hints[1].kind, out'.hints[2].kind} = {"image", "video"}
                      /\ \A k \in 1..2 :
                            out'.hints[k].mimes =
                                [f \in Differing(mimetype, mimes) |-> mimes[f]]]_vars

\* C3 witness: a result changed the mimetype of one path while another path
\* stayed cached, and only the changed one was hinted.
C3_Witness ==
    /\ out.op = "update_mimetype"
    /\ out.ret
    /\ Cardinality(DOMAIN mimetype) >= 2
    /\ Cardinality(DOMAIN out.hints[1].mimes) = 1

\* C4: a step that is not a yank leaves the clipboard, its cut flag and its
\* set of paths, as it was.
C4_ClipboardOnlyYank ==
    [][(\E cut \in BOOLEAN : yank(cut)) \/ yanked' = yanked]_vars

\* C4 witness: the clipboard still holds a yanked path after a later event
\* took that path out of the listing of the current Folder.
C4_Witness ==
    /\ out.op \in {"update_read", "update_ioerr", "update_search"}
    /\ yanked.set /= {}
    /\ yanked.set \cap FilePaths(current.files) = {}

\* the paths yank resolves to: the selected paths of the current Folder if
\* there are any, else the hovered path, else none
Resolved ==
    IF current.selected /= {} THEN current.selected
    ELSE IF IsSome(hovered) THEN {Unwrap(hovered).path}
    ELSE {}

\* C5: after yank(cut) the cut flag is the argument and the set of paths is
\* exactly what the selection resolves to at the call, whatever the
\* clipboard held before.
C5_YankReplaces ==
    [][\A cut \in BOOLEAN :
          yank(cut) => yanked' = [cut |-> cut, set |-> Resolved]]_vars

\* C5 witness: a cut-yank took a selection that is not the hovered entry.
C5_Witness ==
    /\ out.op = "yank"
    /\ yanked.cut
    /\ yanked.set = current.selected
    /\ IsSome(hovered)
    /\ Unwrap(hovered).path \notin yanked.set
    /\ yanked.set /= {}

\* C6: there is always a tab and the active index is within the tabs; close
\* removes the active tab if there are several, and the tab that was at
\* index 1 is the one left at index 0 when index 0 of two tabs is closed;
\* with one tab close leaves the tabs alone and does what quit does.
C6_CloseKeepsOneTab ==
    [][/\ Len(tabs') >= 1
       /\ idx' \in 0..(Len(tabs') - 1)
       /\ \A tasks \in JobCounts :
             close(tasks) =>
                 IF Len(tabs) > 1
                 THEN /\ tabs' = Remove(tabs, idx)
                      /\ out'.emits = <<>> /\ out'.prompts = 0 /\ prompts' = prompts
                      /\ (Len(tabs) = 2 /\ idx = 0) => (tabs' = <<tabs[2]>> /\ idx' = 0)
                 ELSE /\ tabs' = tabs /\ idx' = idx
                      /\ out'.ret = quit_op(tasks).b
                      /\ out'.emits = quit_op(tasks).emits
                      /\ prompts' = prompts \o quit_op(tasks).spawn]_vars

\* C6 witness: the tab at index 0 of two tabs was closed while it was active,
\* and the tab opened second is the one that is left.
C6_Witness ==
    /\ out.op = "close"
    /\ out.ret
    /\ Len(tabs) = 1
    /\ idx = 0
    /\ tabs[1].current.cwd = Up

\* the Folders of a tab: the current one, the parent and the archived ones
FoldersOf(tab) ==
    {tab.current} \cup Range(tab.parent) \cup {tab.history[p] : p \in DOMAIN tab.history}

\* C7: the hovered entry of every Folder of a tab is absent or an entry of
\* that Folder's listing.
C7_HoveredIsListed ==
    \A t \in 1..Len(tabs) :
        \A f \in FoldersOf(tabs[t]) :
            IsSome(f.hovered) => Unwrap(f.hovered) \in Range(f.files)

\* C7 witness: after an event the current Folder, the parent and an archived
\* Folder all have a hovered entry.
C7_Witness ==
    /\ out.op \in {"update_read", "update_ioerr", "update_search"}
    /\ IsSome(hovered)
    /\ IsSome(parent) /\ IsSome(Unwrap(parent).hovered)
    /\ \E p \in DOMAIN active.history : IsSome(active.history[p].hovered)

\* the hovered path the rule of the cursor re-validation gives for the
\* listing files, from the path hovered and the cursor index before
Rehovered(f, files) ==
    IF IsSome(f.hovered) /\ Unwrap(f.hovered).path \in FilePaths(files)
    THEN Some(Unwrap(f.hovered).path)
    ELSE IF Len(files) = 0 THEN None
    ELSE Some(files[Min(f.cursor, Len(files) - 1) + 1].path)

\* C8 as stated: two runs of reads of the current directory that deliver the
\* same entries at every event, ordered differently or not, hover the same
\* path whenever they end with the same listing.
C8_HoverOrderIndependent ==
    (current.files = shadow.current.files)
        => (HoveredPath(hovered) = HoveredPath(shadow.current.hovered))

\* C8 amended: after each read of the current directory the hovered path is
\* the path hovered just before the read if the new listing has it, else the
\* entry at the index the cursor had just before the read, else the last
\* entry, else none; two runs that hover the same path before a read hover
\* the same path after it if the new listing has that path.
C8_HoverRule ==
    [][\A op \in HomeReadOps :
          (Called("update_read", <<op>>) /\ update_read(op)) =>
              /\ HoveredPath(hovered') = Rehovered(current, op.items)
              /\ (/\ IsSome(hovered)
                  /\ HoveredPath(hovered) = HoveredPath(shadow.current.hovered)
                  /\ Unwrap(hovered).path \in FilePaths(op.items))
                 => \A permuted \in Reorderings(op) :
                        read_both(op, permuted) =>
                            HoveredPath(hovered') = HoveredPath(shadow'.current.hovered)]_vars

\* C8 witness: the read took the hovered path away and the cursor fell back
\* to index 1, while the run that saw an intermediate listing in another
\* order ends with the same listing and another hovered path.
C8_Witness ==
    /\ out.op = "update_read"
    /\ out.emits = <<Hover>>
    /\ current.cursor = 1
    /\ current.files = shadow.current.files
    /\ HoveredPath(hovered) /= HoveredPath(shadow.current.hovered)

\* C9: update_read emits Hover once if the hovered path of the active tab
\* after the call differs from the one before, a change from or to no hover
\* included, and does not emit it if the hovered path is the same.
C9_HoverOnceIffChanged ==
    [][\A op \in HomeReadOps \cup ReadOps :
          (Called("update_read", <<op>>) /\ update_read(op)) =>
              out'.emits = IF HoveredPath(hovered) /= HoveredPath(hovered')
                           THEN <<Hover>> ELSE <<>>]_vars

\* C9 witness: a read took the hovered entry away, the cursor fell to the
\* entry at index 1, and Hover was emitted.
C9_Witness ==
    /\ out.op = "update_read"
    /\ out.emits = <<Hover>>
    /\ current.cursor = 1
    /\ Len(current.files) = MaxLen

\* C10: update_ioerr leaves the history of the active tab as it was, and
\* with a path that is neither the current directory nor the parent's it
\* returns false and leaves the Manager as it was.
C10_IOErrElsewhereIsNoOp ==
    [][\A op \in IOErrOps :
          update_ioerr(op) =>
              /\ active'.history = active.history
              /\ (/\ op.path /= current.cwd
                  /\ ~(IsSome(parent) /\ Unwrap(parent).cwd = op.path))
                 => (~out'.ret /\ UNCHANGED manager)]_vars

\* C10 witness: an I/O error of a directory that is neither the current one
\* nor the parent was turned down while the history held an archived Folder.
C10_Witness ==
    /\ out.op = "update_ioerr"
    /\ ~out.ret
    /\ DOMAIN active.history /= {}

\* C11: when update_ioerr returns true and a parent is known, the tab is
\* afterwards in the parent directory of op's path and its current Folder is
\* not the Folder of op's path; when no parent is known the tab stays where
\* it is.
C11_IOErrBacksOut ==
    [][\A op \in IOErrOps :
          (Called("update_ioerr", <<op>>) /\ update_ioerr(op) /\ out'.ret) =>
              IF IsSome(parent)
              THEN /\ PathParent(op.path) = Some(current'.cwd)
                   /\ current'.cwd /= op.path
              ELSE current'.cwd = current.cwd]_vars

\* C12: no Folder in a tab's history is a search listing; update_search on
\* a search listing of the same path merges in place and leaves the history
\* alone; otherwise it archives the replaced current Folder if that was not
\* a search listing and archives nothing if it was.
C12_SearchNeverArchived ==
    [][/\ \A t \in 1..Len(tabs') :
             \A p \in DOMAIN tabs'[t].history : ~tabs'[t].history[p].in_search
       /\ \A op \in SearchOps :
             (Called("update_search", <<op>>) /\ update_search(op)) =>
                 IF current.in_search /\ current.cwd = op.path
                 THEN /\ active'.history = active.history
                      /\ current'.in_search
                      /\ current'.cwd = current.cwd
                      /\ current'.files = MergeFiles(current.files, op.items)
                 ELSE IF current.in_search
                 THEN active'.history = active.history
                 ELSE /\ \E p \in DOMAIN active'.history :
                            /\ active'.history[p] = current
                            /\ \A q \in (DOMAIN active'.history) \ {p} :
                                  q \in DOMAIN active.history
                                  /\ active'.history[q] = active.history[q]
                      /\ DOMAIN active.history \subseteq DOMAIN active'.history]_vars

\* C12 witness: a second search result of the same path was merged into the
\* search listing while the history holds the Folder the search replaced.
C12_Witness ==
    /\ out.op = "update_search"
    /\ current.in_search
    /\ Len(current.files) >= 2
    /\ \E p \in DOMAIN active.history : ~active.history[p].in_search

\* C13: the parent Folder of every tab, if there is one, is the Folder of
\* the parent directory of the tab's current directory.
C13_ParentOfCurrent ==
    \A t \in 1..Len(tabs) :
        IsSome(tabs[t].parent) =>
            PathParent(tabs[t].current.cwd) = Some(Unwrap(tabs[t].parent).cwd)

\* C14 as stated: the mimetype cache changes only in update_mimetype; every
\* other operation, mimetypes included, leaves it as it was.
C14_CacheOnlyByHandler ==
    [][\/ mimetype' = mimetype
       \/ \E mimes \in SmallMimeMaps : update_mimetype(mimes)]_vars

\* C14 amended: the mimetype cache changes only in update_mimetype and in
\* mimetypes, which merges what the prober resolved; every other operation
\* leaves it as it was.
C14_CacheByHandlerAndLookup ==
    [][\/ mimetype' = mimetype
       \/ \E mimes \in SmallMimeMaps : update_mimetype(mimes)
       \/ \E files \in PathLists(1) :
             \E result \in ProbeResults(mimetypes_todo(mimetype, files)) :
                 mimetypes(files, result)]_vars

\* C14 witness: mimetypes asked the prober for a path that was not cached,
\* and the mimetype the prober resolved is in the cache afterwards.
C14_Witness ==
    /\ out.op = "mimetypes"
    /\ \E i \in 1..Len(out.found) :
          /\ IsSome(out.found[i])
          /\ out.event[1][i] \in Range(out.probes[1])
          /\ out.event[1][i] \in DOMAIN mimetype

\* the mimetype mimetypes is to hand back for path p: the one cached before
\* the call, else the one the prober resolved, else none
Expected(cache, result, p) ==
    IF p \in DOMAIN cache THEN Some(cache[p])
    ELSE IF result.ok /\ p \in DOMAIN result.value THEN Some(result.value[p])
    ELSE None

\* C15: mimetypes, called with the paths files and answered by the prober
\* with result, calls the prober once, with exactly the paths that are not
\* cached, and hands back one element per path, in the order given: the
\* mimetype cached before, else the mimetype the prober resolved, else none,
\* and none for every path not cached when the prober failed.
C15_MimetypesProbesMissing ==
    [][out'.op = "mimetypes" =>
          \A files \in {out'.event[1]}, result \in {out'.event[2]} :
              mimetypes(files, result) =>
                  /\ Len(out'.probes) = 1
                  /\ Range(out'.probes[1]) = Range(files) \ DOMAIN mimetype
                  /\ Len(out'.found) = Len(files)
                  /\ \A i \in 1..Len(files) :
                        out'.found[i] = Expected(mimetype, result, files[i])]_vars

\* C15 witness: of two paths asked for, the first was cached and not handed
\* to the prober, the second was handed to the prober, which answered and
\* did not resolve it.
C15_Witness ==
    /\ out.op = "mimetypes"
    /\ Len(out.found) = 2
    /\ IsSome(out.found[1])
    /\ out.event[1][1] \notin Range(out.probes[1])
    /\ out.event[1][2] \in Range(out.probes[1])
    /\ out.event[2].ok
    /\ out.found[2] = None

\* the listing of the parent Folder, if there is one
ParentListing(tab) ==
    IF IsSome(tab.parent) THEN Some(Unwrap(tab.parent).files) ELSE None

\* the listings of the archived Folders
HistoryListings(tab) == [p \in DOMAIN tab.history |-> tab.history[p].files]

\* C16: update_read puts the listing into one Folder of the active tab: the
\* current one if it is the Folder of op's path and no search listing, else
\* the parent if it is the Folder of op's path, else the archived Folder under
\* op's path, made if there is none; the listings of the other Folders stay
\* as they were.
C16_ReadGoesToOneFolder ==
    [][\A op \in ReadOps :
          (Called("update_read", <<op>>) /\ update_read(op)) =>
              IF current.cwd = op.path /\ ~current.in_search
              THEN /\ current'.files = op.items
                   /\ ParentListing(active') = ParentListing(active)
                   /\ HistoryListings(active') = HistoryListings(active)
              ELSE IF IsSome(parent) /\ Unwrap(parent).cwd = op.path
              THEN /\ ParentListing(active') = Some(op.items)
                   /\ current'.files = current.files
                   /\ HistoryListings(active') = HistoryListings(active)
              ELSE /\ HistoryListings(active') =
                          MapPut(HistoryListings(active), op.path, op.items)
                   /\ current'.files = current.files
                   /\ ParentListing(active') = ParentListing(active)]_vars

\* C16 witness: the current Folder is a search listing, a read of its path
\* arrived, and the entries went to the archived Folder of that path and not
\* to the search listing.
C16_Witness ==
    /\ out.op = "update_read"
    /\ current.in_search
    /\ out.event[1].path = current.cwd
    /\ out.event[1].items /= <<>>
    /\ current.cwd \in DOMAIN active.history
    /\ active.history[current.cwd].files = out.event[1].items
    /\ current.files /= out.event[1].items

\* the hovered entry is a file whose mimetype is not cached
HoversUnknownFile ==
    /\ IsSome(hovered)
    /\ ~Unwrap(hovered).is_dir
    /\ Unwrap(hovered).path \notin DOMAIN mimetype

\* C17: preview asks the prober only when the hovered entry is a file whose
\* mimetype is not cached, and then for that one path; with nothing hovered
\* it resets the preview slot; when the result for that file arrives through
\* update_mimetype while the file is still hovered, the preview goes to the
\* mimetype of the result and the prober is not asked again.
C17_ProbeOnlyUnknownFile ==
    [][/\ (out'.op = "preview" /\ preview) =>
              /\ out'.probes = IF HoversUnknownFile
                               THEN <<<<Unwrap(hovered).path>>>> ELSE <<>>
              /\ ~IsSome(hovered) => active'.preview = Preview_new
       /\ \A mimes \in MimeMaps :
             (/\ Called("update_mimetype", <<mimes>>)
              /\ update_mimetype(mimes)
              /\ HoversUnknownFile
              /\ Unwrap(hovered).path \in DOMAIN mimes) =>
                 /\ hovered' = hovered
                 /\ out'.probes = <<>>
                 /\ out'.go = <<[path |-> Unwrap(hovered).path,
                                 mime |-> mimes[Unwrap(hovered).path]]>>]_vars

\* C17 witness: the result for the hovered file came through update_mimetype
\* with the results for other paths, the preview went to its mimetype and
\* the prober was not asked.
C17_Witness ==
    /\ out.op = "update_mimetype"
    /\ IsSome(hovered)
    /\ ~Unwrap(hovered).is_dir
    /\ Cardinality(DOMAIN out.event[1]) >= 2
    /\ Len(out.go) = 1
    /\ out.go[1].path = Unwrap(hovered).path
    /\ out.go[1].mime = out.event[1][Unwrap(hovered).path]
    /\ out.probes = <<>>

\* C18: a read that is delivered a second time, right after the first, leaves
\* the Manager as the first left it and emits no Hover.
C18_ReadTwiceIsReadOnce ==
    [][\A op \in ReadOps :
          (/\ out.op = "update_read"
           /\ out.event = <<op>>
           /\ Called("update_read", <<op>>)
           /\ update_read(op)) =>
              (UNCHANGED manager /\ out'.emits = <<>>)]_vars

\* C18 witness: a read delivered the listing the current Folder holds
\* already, with its hovered entry, and no Hover was emitted.
C18_Witness ==
    /\ out.op = "update_read"
    /\ out.event[1].path = current.cwd
    /\ ~current.in_search
    /\ out.event[1].items /= <<>>
    /\ current.files = out.event[1].items
    /\ IsSome(hovered)
    /\ out.ret
    /\ out.emits = <<>>

\* C19: every Folder in a tab's history is stored under its own cwd.
C19_HistoryKeyedByCwd ==
    \A t \in 1..Len(tabs) :
        \A p \in DOMAIN tabs[t].history : tabs[t].history[p].cwd = p

\* C20: with the clipboard in cut mode link returns false and sends no
\* request to the job queue; in copy mode it sends one request, with the
\* paths of the clipboard as sources, the current directory of the active
\* tab as destination and the flags given, and returns the queue's result.
C20_LinkOnlyCopied ==
    [][\A relative \in BOOLEAN, force \in BOOLEAN, file_link \in BOOLEAN :
          link(relative, force, file_link) =>
              IF yanked.cut
              THEN ~out'.ret /\ out'.links = <<>>
              ELSE /\ out'.links = <<[src |-> yanked.set, dest |-> current.cwd,
                                      relative |-> relative, force |-> force]>>
                   /\ out'.ret = file_link]_vars

\* C20 witness: after a copy-yank of two selected paths link sent one
\* request with these paths and handed back the queue's refusal.
C20_Witness ==
    /\ out.op = "link"
    /\ ~yanked.cut
    /\ Cardinality(yanked.set) >= 2
    /\ Len(out.links) = 1
    /\ out.links[1].src = yanked.set
    /\ ~out.ret

====
